---- MODULE Spec2Model ----
(***************************************************************************)
(* URL shortener with Huffman encoding.                                    *)
(*                                                                         *)
(* Two variants of class URLShortener are modelled side by side:           *)
(*   s1 : src/URL.py   codec metadata keyed by short code, expand_url      *)
(*                     scans every record                                  *)
(*   s2 : src/_URL.py  codec metadata keyed by compressed code, expand_url *)
(*                     is a keyed lookup                                   *)
(*                                                                         *)
(* Strings are sequences of characters.  A character is its index in the   *)
(* URL-safe base64 alphabet (A-Z = 0..25, a-z = 26..51, 0-9 = 52..61,      *)
(* '-' = 62, '_' = 63); PadChar is '=' and JunkChar stands for any         *)
(* character outside the alphabet.  Bit strings are sequences over {0,1}.  *)
(***************************************************************************)
EXTENDS Integers, Sequences, FiniteSets, TLC

VARIABLES s1, s2, max_collision_attempts, ret, issued

vars == <<s1, s2, max_collision_attempts, ret, issued>>

(***************************************************************************)
(* Bounds of the model.                                                    *)
(***************************************************************************)
NumUrls == 3          \* URLs are 1..NumUrls
NumDigests == 2       \* distinct truncated digests the URLs hash to
PrefixLen == 3        \* length of the digest-derived prefix (8 in the source)
SuffixLen == 1        \* length of the random suffix (4 in the source)
NumLetters == 2       \* letters the suffix is drawn from (26 in the source)
MaxAttempts == 2      \* max_collision_attempts ranges over 1..MaxAttempts
MaxLen == 5           \* longest input string of the codec specification
NumSymbols == 4       \* alphabet size of the codec specification
NumBytes == 1         \* bytes of an arbitrary bit stream given to _decompress
MaxTableText == 2     \* longest string whose code table decodes such a stream

(***************************************************************************)
(* Characters.                                                             *)
(***************************************************************************)
LowerA == 26          \* index of 'a' in the base64 alphabet
PadChar == 64         \* '='
JunkChar == 65        \* a character outside the base64 alphabet, e.g. '!'
NoChar == 0 - 1       \* HuffmanNode.char == '' (an internal node)
None == [isNone |-> TRUE]

RECURSIVE Concat(_)
\* ''.join(parts)
Concat(parts) ==
  IF parts = <<>> THEN <<>> ELSE Head(parts) \o Concat(Tail(parts))

Zeros(n) == [i \in 1..n |-> 0]

\* The value of a local variable: The({e(v) : v \in {x}}) is e with v
\* assigned the value of x once, as an assignment statement does
The(S) == CHOOSE x \in S : TRUE

(***************************************************************************)
(* class HuffmanNode                                                       *)
(***************************************************************************)
HuffmanNode(char, freq) ==
  [char |-> char, freq |-> freq, left |-> None, right |-> None]

\* HuffmanNode.__lt__
lt(a, b) == a.freq < b.freq

(***************************************************************************)
(* heapq, on 0-based positions as in the library; heap[pos + 1] is the     *)
(* library's heap[pos].                                                    *)
(***************************************************************************)
RECURSIVE siftdown_loop(_, _, _, _)
siftdown_loop(heap, startpos, pos, newitem) ==
  IF pos > startpos
  THEN LET parentpos == (pos - 1) \div 2
           parent == heap[parentpos + 1]
       IN IF lt(newitem, parent)
          THEN siftdown_loop([heap EXCEPT ![pos + 1] = parent],
                             startpos, parentpos, newitem)
          ELSE [heap EXCEPT ![pos + 1] = newitem]
  ELSE [heap EXCEPT ![pos + 1] = newitem]

siftdown(heap, startpos, pos) ==
  siftdown_loop(heap, startpos, pos, heap[pos + 1])

RECURSIVE siftup_loop(_, _, _, _)
siftup_loop(heap, startpos, pos, newitem) ==
  LET endpos == Len(heap)
      childpos == 2 * pos + 1
  IN IF childpos < endpos
     THEN LET rightpos == childpos + 1
              c == IF rightpos < endpos
                      /\ ~lt(heap[childpos + 1], heap[rightpos + 1])
                   THEN rightpos ELSE childpos
          IN siftup_loop([heap EXCEPT ![pos + 1] = heap[c + 1]],
                         startpos, c, newitem)
     ELSE siftdown([heap EXCEPT ![pos + 1] = newitem], startpos, pos)

siftup(heap, pos) == siftup_loop(heap, pos, pos, heap[pos + 1])

heappush(heap, item) == siftdown(Append(heap, item), 0, Len(heap))

\* heappop returns the popped item and the remaining heap
heappop(heap) ==
  LET lastelt == heap[Len(heap)]
      rest == SubSeq(heap, 1, Len(heap) - 1)
  IN IF rest # <<>>
     THEN [item |-> heap[1],
           heap |-> siftup([rest EXCEPT ![1] = lastelt], 0)]
     ELSE [item |-> lastelt, heap |-> rest]

(***************************************************************************)
(* URLShortener._build_huffman_tree                                        *)
(***************************************************************************)
RECURSIVE FirstOccurrences(_, _)
FirstOccurrences(data, seen) ==
  IF data = <<>> THEN seen
  ELSE IF \E i \in DOMAIN seen : seen[i] = Head(data)
       THEN FirstOccurrences(Tail(data), seen)
       ELSE FirstOccurrences(Tail(data), Append(seen, Head(data)))

\* Counter(data): the (char, count) items in first-occurrence order
Counter(data) ==
  LET keys == FirstOccurrences(data, <<>>)
  IN [k \in DOMAIN keys |->
        [char |-> keys[k],
         count |-> Cardinality({i \in DOMAIN data : data[i] = keys[k]})]]

RECURSIVE push_leaves(_, _)
\* for char, count in freq.items(): heapq.heappush(heap, HuffmanNode(char, count))
push_leaves(heap, items) ==
  IF items = <<>> THEN heap
  ELSE The({push_leaves(pushed, Tail(items)) :
              pushed \in {heappush(heap, HuffmanNode(Head(items).char,
                                                     Head(items).count))}})

RECURSIVE merge_loop(_)
\* while len(heap) > 1: pop two, push their parent
merge_step(p1, p2) ==
  LET internal == [char |-> NoChar,
                   freq |-> p1.item.freq + p2.item.freq,
                   left |-> p1.item, right |-> p2.item]
  IN heappush(p2.heap, internal)

merge_loop(heap) ==
  IF Len(heap) > 1
  THEN The({The({The({merge_loop(pushed) : pushed \in {merge_step(p1, p2)}}) :
                   p2 \in {heappop(p1.heap)}}) :
              p1 \in {heappop(heap)}})
  ELSE heap

RECURSIVE generate_codes_same_branch(_, _)
\* generate_codes with the right child given the left child's bit
generate_codes_same_branch(node, code) ==
  IF node.char # NoChar
  THEN << [char |-> node.char, code |-> code] >>
  ELSE (IF node.left # None
        THEN generate_codes_same_branch(node.left, Append(code, 0)) ELSE <<>>)
       \o
       (IF node.right # None
        THEN generate_codes_same_branch(node.right, Append(code, 0)) ELSE <<>>)

RECURSIVE generate_codes(_, _)
\* the codes dict as the sequence of its (char, code) items in insertion order
generate_codes(node, code) ==
  IF node.char # NoChar
  THEN << [char |-> node.char, code |-> code] >>
  ELSE (IF node.left # None
        THEN generate_codes(node.left, Append(code, 0)) ELSE <<>>)
       \o
       (IF node.right # None
        THEN generate_codes(node.right, Append(code, 1)) ELSE <<>>)

build_huffman_tree(data) ==
  LET freq == Counter(data)
  IN IF Len(freq) = 1
     THEN << [char |-> data[1], code |-> <<0>>] >>
     ELSE The({IF heap # <<>> THEN generate_codes(heap[1], <<>>) ELSE <<>> :
                 heap \in {merge_loop(push_leaves(<<>>, freq))}})

(***************************************************************************)
(* base64.urlsafe_b64encode / urlsafe_b64decode on bit strings whose       *)
(* length is a multiple of 8 (the bytes objects of the source).            *)
(***************************************************************************)
RECURSIVE BitsToInt(_)
BitsToInt(bits) ==
  IF bits = <<>> THEN 0
  ELSE 2 * BitsToInt(SubSeq(bits, 1, Len(bits) - 1)) + bits[Len(bits)]

IntToBits(n, width) ==
  [i \in 1..width |-> (n \div (2 ^ (width - i))) % 2]

urlsafe_b64encode(bits) ==
  LET nbytes == Len(bits) \div 8
      fill == (6 - (Len(bits) % 6)) % 6
      filled == bits \o Zeros(fill)
      nchars == Len(filled) \div 6
      pads == (3 - (nbytes % 3)) % 3
  IN [i \in 1..(nchars + pads) |->
        IF i <= nchars
        THEN BitsToInt(SubSeq(filled, 6 * (i - 1) + 1, 6 * i))
        ELSE PadChar]

RECURSIVE a2b_loop(_, _, _, _, _)
\* binascii.a2b_base64, non-strict: characters outside the alphabet are
\* skipped; a completed pad sequence ends the parse; data that stops inside
\* a quad is an error
a2b_loop(chars, i, quad_pos, pads, sextets) ==
  IF i > Len(chars)
  THEN IF quad_pos # 0
       THEN [ok |-> FALSE, bits |-> <<>>]
       ELSE [ok |-> TRUE, bits |-> sextets]
  ELSE IF chars[i] = PadChar
       THEN IF quad_pos >= 2 /\ quad_pos + pads + 1 >= 4
            THEN [ok |-> TRUE, bits |-> sextets]
            ELSE a2b_loop(chars, i + 1, quad_pos,
                          IF quad_pos >= 2 THEN pads + 1 ELSE pads, sextets)
       ELSE IF chars[i] \notin 0..63
            THEN a2b_loop(chars, i + 1, quad_pos, pads, sextets)
            ELSE a2b_loop(chars, i + 1, (quad_pos + 1) % 4, 0,
                          sextets \o IntToBits(chars[i], 6))

urlsafe_b64decode(chars) ==
  LET r == a2b_loop(chars, 1, 0, 0, <<>>)
  IN IF r.ok
     THEN [ok |-> TRUE,
           bits |-> SubSeq(r.bits, 1, 8 * (Len(r.bits) \div 8))]
     ELSE r

(***************************************************************************)
(* URLShortener._compress                                                  *)
(***************************************************************************)
\* huffman_codes[char]
CodeOf(huffman_codes, char) ==
  huffman_codes[CHOOSE k \in DOMAIN huffman_codes :
                  huffman_codes[k].char = char].code

\* _compress padding a whole byte when the bits already fill their bytes
pack_pad_always(data, huffman_codes) ==
  LET compressed == Concat([i \in DOMAIN data |-> CodeOf(huffman_codes, data[i])])
      padding_length == 8 - (Len(compressed) % 8)
      padded_binary == compressed \o Zeros(padding_length)
  IN [compressed_str |-> urlsafe_b64encode(padded_binary),
      huffman_codes |-> huffman_codes]

pack(data, huffman_codes) ==
  LET compressed == Concat([i \in DOMAIN data |-> CodeOf(huffman_codes, data[i])])
      padding_length == (8 - (Len(compressed) % 8)) % 8
      padded_binary == compressed \o Zeros(padding_length)
  IN [compressed_str |-> urlsafe_b64encode(padded_binary),
      huffman_codes |-> huffman_codes]

compress(data) ==
  The({pack(data, huffman_codes) : huffman_codes \in {build_huffman_tree(data)}})

(***************************************************************************)
(* URLShortener._decompress                                                *)
(***************************************************************************)
\* reverse_codes = {code: char for char, code in huffman_codes.items()}:
\* a later item replaces an earlier one with the same code
InReverse(huffman_codes, code) ==
  \E k \in DOMAIN huffman_codes : huffman_codes[k].code = code

ReverseOf(huffman_codes, code) ==
  LET ks == {k \in DOMAIN huffman_codes : huffman_codes[k].code = code}
  IN huffman_codes[CHOOSE k \in ks : \A j \in ks : j <= k].char

RECURSIVE decode_loop(_, _, _, _)
decode_loop(binary, huffman_codes, current_code, result) ==
  IF binary = <<>> THEN result
  ELSE LET cc == Append(current_code, Head(binary))
       IN IF InReverse(huffman_codes, cc)
          THEN decode_loop(Tail(binary), huffman_codes, <<>>,
                           Append(result, ReverseOf(huffman_codes, cc)))
          ELSE decode_loop(Tail(binary), huffman_codes, cc, result)

\* bin(int.from_bytes(b))[2:].zfill(8 * len(b)): the bits of b, except that
\* no bytes at all give the one-character string '0'
BinaryOf(bits) == IF bits = <<>> THEN <<0>> ELSE bits

\* ok = FALSE when the call raises
decompress(compressed_str, huffman_codes) ==
  The({IF ~bytes_data.ok
       THEN [ok |-> FALSE, text |-> <<>>]
       ELSE [ok |-> TRUE,
             text |-> The({decode_loop(binary, huffman_codes, <<>>, <<>>) :
                             binary \in {BinaryOf(bytes_data.bits)}})] :
         bytes_data \in {urlsafe_b64decode(compressed_str)}})

(***************************************************************************)
(* Python dicts that the code iterates or overwrites are sequences of      *)
(* (key, value) items in insertion order.                                  *)
(***************************************************************************)
DictHas(d, k) == \E i \in DOMAIN d : d[i].key = k

DictGet(d, k) == d[CHOOSE i \in DOMAIN d : d[i].key = k].value

\* d[k] = v: a new key is appended, an existing key keeps its place
DictSet(d, k, v) ==
  IF DictHas(d, k)
  THEN [i \in DOMAIN d |-> IF d[i].key = k THEN [key |-> k, value |-> v] ELSE d[i]]
  ELSE Append(d, [key |-> k, value |-> v])

\* d[k] = v on a dict that is only looked up: a function
MapSet(f, k, v) ==
  [x \in DOMAIN f \cup {k} |-> IF x = k THEN v ELSE f[x]]

\* outcomes of a call
Pair(short_code, compressed) ==
  [kind |-> "pair", short_code |-> short_code, compressed |-> compressed]
Found(url) == [kind |-> "url", url |-> url]
NotFound == [kind |-> "none"]
Raise(error) == [kind |-> "raise", error |-> error]

(***************************************************************************)
(* Inputs.                                                                 *)
(***************************************************************************)
Urls == 1..NumUrls
Letters == LowerA..(LowerA + NumLetters - 1)
Suffixes == [1..SuffixLen -> Letters]

\* hashlib.sha256(url).hexdigest()[:16]: distinct URLs may share a digest
Digest(url) == url % NumDigests

\* base64.urlsafe_b64encode(bytes.fromhex(hash_hex[:16]))...[:8]: a fixed
\* string per digest; the digests of the model end in the letter 'a'
HashPrefix(url) ==
  [i \in 1..PrefixLen |->
     IF i = PrefixLen THEN LowerA
     ELSE (Digest(url) * PrefixLen + i) % 26]

(***************************************************************************)
(* URLShortener._generate_short_code; draws[i] is the suffix that          *)
(* random.choices returns in attempt i.                                    *)
(***************************************************************************)
\* the attempt loop without the membership test
attempt_loop_unchecked(code_to_url, url, draws, attempts, i) ==
  [ok |-> TRUE, short_code |-> HashPrefix(url) \o draws[i], drawn |-> i]

RECURSIVE attempt_loop_no_raise(_, _, _, _, _)
\* the attempt loop returning its last candidate instead of raising
attempt_loop_no_raise(code_to_url, url, draws, attempts, i) ==
  LET short_code == HashPrefix(url) \o draws[i]
  IN IF short_code \notin DOMAIN code_to_url \/ i >= attempts
     THEN [ok |-> TRUE, short_code |-> short_code, drawn |-> i]
     ELSE attempt_loop_no_raise(code_to_url, url, draws, attempts, i + 1)

RECURSIVE attempt_loop_same_suffix(_, _, _, _, _)
\* the attempt loop drawing one suffix before the loop and reusing it
attempt_loop_same_suffix(code_to_url, url, draws, attempts, i) ==
  IF i > attempts
  THEN [ok |-> FALSE, short_code |-> <<>>, drawn |-> attempts]
  ELSE LET short_code == HashPrefix(url) \o draws[1]
       IN IF short_code \notin DOMAIN code_to_url
          THEN [ok |-> TRUE, short_code |-> short_code, drawn |-> i]
          ELSE attempt_loop_same_suffix(code_to_url, url, draws, attempts, i + 1)

RECURSIVE attempt_loop(_, _, _, _, _)
attempt_loop(code_to_url, url, draws, attempts, i) ==
  IF i > attempts
  THEN [ok |-> FALSE, short_code |-> <<>>, drawn |-> attempts]
  ELSE LET short_code == HashPrefix(url) \o draws[i]
       IN IF short_code \notin DOMAIN code_to_url
          THEN [ok |-> TRUE, short_code |-> short_code, drawn |-> i]
          ELSE attempt_loop(code_to_url, url, draws, attempts, i + 1)

generate_short_code(code_to_url, url, draws, attempts) ==
  attempt_loop(code_to_url, url, draws, attempts, 1)

(***************************************************************************)
(* src/URL.py: URLShortener.shorten_url and expand_url.  Each returns the  *)
(* store after the call and the call's outcome.                            *)
(***************************************************************************)
\* shorten_url without the early return for a URL that has a record
shorten_url1_always_new(s, attempts, long_url, draws) ==
  LET g == generate_short_code(s.code_to_url, long_url, draws, attempts)
  IN IF ~g.ok
     THEN [store |-> s, ret |-> Raise("ValueError"), drawn |-> g.drawn]
     ELSE LET c == compress(g.short_code)
          IN [store |->
                [url_to_code |-> MapSet(s.url_to_code, long_url, g.short_code),
                 code_to_url |-> MapSet(s.code_to_url, g.short_code, long_url),
                 compressed_data |->
                   DictSet(s.compressed_data, g.short_code,
                           [compressed |-> c.compressed_str,
                            huffman_codes |-> c.huffman_codes,
                            original_url |-> long_url])],
              ret |-> Pair(g.short_code, c.compressed_str),
              drawn |-> g.drawn]

\* shorten_url entering the URL in url_to_code before the code is generated
shorten_url1_store_first(s, attempts, long_url, draws) ==
  IF long_url \in DOMAIN s.url_to_code
  THEN [store |-> s,
        ret |-> Pair(s.url_to_code[long_url],
                     DictGet(s.compressed_data, s.url_to_code[long_url]).compressed),
        drawn |-> 0]
  ELSE LET g == generate_short_code(s.code_to_url, long_url, draws, attempts)
           c == compress(g.short_code)
       IN IF ~g.ok
          THEN [store |-> [s EXCEPT !.url_to_code = MapSet(@, long_url, <<>>)],
                ret |-> Raise("ValueError"), drawn |-> g.drawn]
          ELSE [store |->
                  [url_to_code |-> MapSet(s.url_to_code, long_url, g.short_code),
                   code_to_url |-> MapSet(s.code_to_url, g.short_code, long_url),
                   compressed_data |->
                     DictSet(s.compressed_data, g.short_code,
                             [compressed |-> c.compressed_str,
                              huffman_codes |-> c.huffman_codes,
                              original_url |-> long_url])],
                ret |-> Pair(g.short_code, c.compressed_str),
                drawn |-> g.drawn]

\* shorten_url without the write to code_to_url
shorten_url1_no_reverse(s, attempts, long_url, draws) ==
  IF long_url \in DOMAIN s.url_to_code
  THEN [store |-> s,
        ret |-> Pair(s.url_to_code[long_url],
                     DictGet(s.compressed_data, s.url_to_code[long_url]).compressed),
        drawn |-> 0]
  ELSE LET g == generate_short_code(s.code_to_url, long_url, draws, attempts)
       IN IF ~g.ok
          THEN [store |-> s, ret |-> Raise("ValueError"), drawn |-> g.drawn]
          ELSE LET c == compress(g.short_code)
               IN [store |->
                     [url_to_code |-> MapSet(s.url_to_code, long_url, g.short_code),
                      code_to_url |-> s.code_to_url,
                      compressed_data |->
                        DictSet(s.compressed_data, g.short_code,
                                [compressed |-> c.compressed_str,
                                 huffman_codes |-> c.huffman_codes,
                                 original_url |-> long_url])],
                   ret |-> Pair(g.short_code, c.compressed_str),
                   drawn |-> g.drawn]

shorten_url1(s, attempts, long_url, draws) ==
  IF long_url \in DOMAIN s.url_to_code
  THEN LET short_code == s.url_to_code[long_url]
       IN IF ~DictHas(s.compressed_data, short_code)
          THEN [store |-> s, ret |-> Raise("KeyError"), drawn |-> 0]
          ELSE [store |-> s,
                ret |-> Pair(short_code,
                             DictGet(s.compressed_data, short_code).compressed),
                drawn |-> 0]
  ELSE LET g == generate_short_code(s.code_to_url, long_url, draws, attempts)
       IN IF ~g.ok
          THEN [store |-> s, ret |-> Raise("ValueError"), drawn |-> g.drawn]
          ELSE LET c == compress(g.short_code)
               IN [store |->
                     [url_to_code |-> MapSet(s.url_to_code, long_url, g.short_code),
                      code_to_url |-> MapSet(s.code_to_url, g.short_code, long_url),
                      compressed_data |->
                        DictSet(s.compressed_data, g.short_code,
                                [compressed |-> c.compressed_str,
                                 huffman_codes |-> c.huffman_codes,
                                 original_url |-> long_url])],
                   ret |-> Pair(g.short_code, c.compressed_str),
                   drawn |-> g.drawn]

RECURSIVE scan_no_except(_, _, _)
\* the scan without the try/except around _decompress
scan_no_except(s, compressed_code, i) ==
  IF i > Len(s.compressed_data) THEN NotFound
  ELSE LET data == s.compressed_data[i].value
           d == decompress(compressed_code, data.huffman_codes)
       IN IF ~d.ok THEN Raise("Error")
          ELSE IF d.text \in DOMAIN s.code_to_url
                  /\ s.code_to_url[d.text] = data.original_url
               THEN Found(s.code_to_url[d.text])
               ELSE scan_no_except(s, compressed_code, i + 1)

RECURSIVE scan(_, _, _)
\* for short_code, data in self.compressed_data.items(): ...
scan(s, compressed_code, i) ==
  IF i > Len(s.compressed_data) THEN NotFound
  ELSE LET data == s.compressed_data[i].value
           d == decompress(compressed_code, data.huffman_codes)
       IN IF d.ok
             /\ d.text \in DOMAIN s.code_to_url
             /\ s.code_to_url[d.text] = data.original_url
          THEN Found(s.code_to_url[d.text])
          ELSE scan(s, compressed_code, i + 1)

expand_url1(s, compressed_code) ==
  [store |-> s, ret |-> scan(s, compressed_code, 1)]

(***************************************************************************)
(* src/_URL.py: URLShortener.shorten_url and expand_url.                   *)
(***************************************************************************)
shorten_url2(s, attempts, long_url, draws) ==
  IF long_url \in DOMAIN s.url_to_code
  THEN LET short_code == s.url_to_code[long_url]
       IN IF ~DictHas(s.compressed_data, short_code)
          THEN [store |-> s, ret |-> Raise("KeyError"), drawn |-> 0]
          ELSE LET compressed_info == DictGet(s.compressed_data, short_code)
               IN IF "compressed" \notin DOMAIN compressed_info
                  THEN [store |-> s, ret |-> Raise("KeyError"), drawn |-> 0]
                  ELSE [store |-> s,
                        ret |-> Pair(short_code, compressed_info.compressed),
                        drawn |-> 0]
  ELSE LET g == generate_short_code(s.code_to_url, long_url, draws, attempts)
       IN IF ~g.ok
          THEN [store |-> s, ret |-> Raise("ValueError"), drawn |-> g.drawn]
          ELSE IF g.short_code \in DOMAIN s.code_to_url
          \* while short_code in self.code_to_url: the body is entered
          THEN [store |-> s, ret |-> [kind |-> "reseed"], drawn |-> g.drawn]
          ELSE LET c == compress(g.short_code)
               IN [store |->
                     [url_to_code |-> MapSet(s.url_to_code, long_url, g.short_code),
                      code_to_url |-> MapSet(s.code_to_url, g.short_code, long_url),
                      compressed_data |->
                        DictSet(s.compressed_data, c.compressed_str,
                                [huffman_codes |-> c.huffman_codes,
                                 original_url |-> long_url])],
                   ret |-> Pair(g.short_code, c.compressed_str),
                   drawn |-> g.drawn]

\* self.code_to_url.get(short_code)
CodeToUrlGet(s, short_code) ==
  IF short_code \in DOMAIN s.code_to_url
  THEN Found(s.code_to_url[short_code]) ELSE NotFound

expand_url2(s, compressed_code) ==
  IF ~DictHas(s.compressed_data, compressed_code)
  THEN [store |-> s, ret |-> NotFound]
  ELSE LET data == DictGet(s.compressed_data, compressed_code)
           d == decompress(compressed_code, data.huffman_codes)
       IN IF ~d.ok
          THEN [store |-> s, ret |-> NotFound]
          ELSE [store |-> s, ret |-> CodeToUrlGet(s, d.text)]

(***************************************************************************)
(* The strings expand_url is called with: every compressed code a short    *)
(* code of the model can have, each of them followed by a character        *)
(* outside the base64 alphabet, the empty string, a string that is not     *)
(* valid base64 and a well-formed code that is never issued.               *)
(***************************************************************************)
ShortCodes == {HashPrefix(u) \o sfx : u \in Urls, sfx \in Suffixes}
IssuableCodes == {compress(sc).compressed_str : sc \in ShortCodes}
Queries ==
  IssuableCodes
    \cup {c \o <<JunkChar>> : c \in IssuableCodes}
    \cup {<<>>, <<0>>, <<63, 63, 63, 63>>}

(***************************************************************************)
(* The store: __init__ and the two public operations, run on both          *)
(* variants with the same arguments and the same random draws.  ret is the *)
(* last call, the draws it made and its outcomes; issued[u] is what the    *)
(* call that created u's record returned.                                  *)
(***************************************************************************)
EmptyStore ==
  [url_to_code |-> <<>>, code_to_url |-> <<>>, compressed_data |-> <<>>]

Init ==
  /\ s1 = EmptyStore
  /\ s2 = EmptyStore
  /\ max_collision_attempts \in 1..MaxAttempts
  /\ ret = [op |-> "init"]
  /\ issued = <<>>

Shorten(long_url, draws) ==
  LET r1 == shorten_url1(s1, max_collision_attempts, long_url, draws)
      r2 == shorten_url2(s2, max_collision_attempts, long_url, draws)
  IN /\ s1' = r1.store
     /\ s2' = r2.store
     /\ ret' = [op |-> "shorten", arg |-> long_url,
                draws |-> SubSeq(draws, 1, IF r1.drawn > r2.drawn
                                           THEN r1.drawn ELSE r2.drawn),
                r1 |-> r1.ret, r2 |-> r2.ret,
                drawn1 |-> r1.drawn, drawn2 |-> r2.drawn]
     /\ issued' = IF long_url \in DOMAIN issued THEN issued
                  ELSE IF r1.ret.kind = "pair" \/ r2.ret.kind = "pair"
                       THEN MapSet(issued, long_url, [r1 |-> r1.ret, r2 |-> r2.ret])
                       ELSE issued
     /\ UNCHANGED max_collision_attempts

Expand(compressed_code) ==
  LET r1 == expand_url1(s1, compressed_code)
      r2 == expand_url2(s2, compressed_code)
  IN /\ s1' = r1.store
     /\ s2' = r2.store
     /\ ret' = [op |-> "expand", arg |-> compressed_code,
                r1 |-> r1.ret, r2 |-> r2.ret]
     /\ UNCHANGED <<max_collision_attempts, issued>>

Next ==
  \/ \E long_url \in Urls :
       \E draws \in [1..max_collision_attempts -> Suffixes] :
         Shorten(long_url, draws)
  \/ \E compressed_code \in Queries : Expand(compressed_code)

Spec == Init /\ [][Next]_vars

(***************************************************************************)
(* The codec on its own: the input is any non-empty string over a small    *)
(* alphabet; _compress is applied to it and _decompress to what _compress  *)
(* returned.                                                               *)
(***************************************************************************)
Symbols == LowerA..(LowerA + NumSymbols - 1)
Texts == UNION {[1..n -> Symbols] : n \in 1..MaxLen}

CodecInit ==
  /\ s1 = EmptyStore
  /\ s2 = EmptyStore
  /\ max_collision_attempts = 1
  /\ ret \in {[op |-> "input", data |-> data] : data \in Texts}
  /\ issued = <<>>

Compress ==
  /\ ret.op = "input"
  /\ ret' = [op |-> "compress", data |-> ret.data, out |-> compress(ret.data)]
  /\ UNCHANGED <<s1, s2, max_collision_attempts, issued>>

Decompress ==
  /\ ret.op = "compress"
  /\ ret' = [op |-> "decompress", data |-> ret.data,
             compressed_str |-> ret.out.compressed_str,
             huffman_codes |-> ret.out.huffman_codes,
             out |-> decompress(ret.out.compressed_str, ret.out.huffman_codes)]
  /\ UNCHANGED <<s1, s2, max_collision_attempts, issued>>

CodecNext ==
  \/ Compress
  \/ Decompress

CodecSpec == CodecInit /\ [][CodecNext]_vars

(***************************************************************************)
(* The store with _generate_short_code also called on its own: the method  *)
(* reads self.code_to_url and assigns to no attribute of self.             *)
(***************************************************************************)
Generate(url, draws) ==
  /\ ret' = [op |-> "generate", arg |-> url, draws |-> draws,
             r1 |-> generate_short_code(s1.code_to_url, url, draws,
                                        max_collision_attempts),
             r2 |-> generate_short_code(s2.code_to_url, url, draws,
                                        max_collision_attempts)]
  /\ UNCHANGED <<s1, s2, max_collision_attempts, issued>>

GenNext ==
  \/ Next
  \/ \E url \in Urls :
       \E draws \in [1..max_collision_attempts -> Suffixes] :
         Generate(url, draws)

GenSpec == Init /\ [][GenNext]_vars

(***************************************************************************)
(* _decompress on its own: the input is any whole number of bytes, given   *)
(* as base64 text, with the code table of any short string.                *)
(***************************************************************************)
Streams == [1..(8 * NumBytes) -> {0, 1}]
Tables ==
  {build_huffman_tree(data) :
     data \in UNION {[1..n -> Symbols] : n \in 1..MaxTableText}}

DecodeInit ==
  /\ s1 = EmptyStore
  /\ s2 = EmptyStore
  /\ max_collision_attempts = 1
  /\ ret \in {[op |-> "stream", compressed_str |-> urlsafe_b64encode(bits),
               huffman_codes |-> huffman_codes] :
                bits \in Streams, huffman_codes \in Tables}
  /\ issued = <<>>

DecompressStream ==
  /\ ret.op = "stream"
  /\ ret' = [op |-> "decoded", compressed_str |-> ret.compressed_str,
             huffman_codes |-> ret.huffman_codes,
             out |-> decompress(ret.compressed_str, ret.huffman_codes)]
  /\ UNCHANGED <<s1, s2, max_collision_attempts, issued>>

DecodeNext == DecompressStream

DecodeSpec == DecodeInit /\ [][DecodeNext]_vars

(***************************************************************************)
(* Properties.                                                             *)
(***************************************************************************)
\* URLs whose first shorten_url call returned a pair, per variant
Issued1 == {u \in DOMAIN issued : issued[u].r1.kind = "pair"}
Issued2 == {u \in DOMAIN issued : issued[u].r2.kind = "pair"}

RecordsOf(s, url) ==
  {i \in DOMAIN s.compressed_data : s.compressed_data[i].value.original_url = url}

IsPrefix(a, b) == Len(a) <= Len(b) /\ SubSeq(b, 1, Len(a)) = a

\* C1: inverse law, both variants: expand_url of the compressed code that
\* shorten_url returned for a stored URL u returns u, whatever else is stored.
C1_InverseLaw ==
  ret.op = "expand" =>
    /\ \A u \in Issued1 :
         issued[u].r1.compressed = ret.arg => ret.r1 = Found(u)
    /\ \A u \in Issued2 :
         issued[u].r2.compressed = ret.arg => ret.r2 = Found(u)

\* C2: idempotence in src/URL.py: shorten_url of a URL that already has a
\* record returns the pair of the first call, draws no code and leaves the
\* three maps as they are, with exactly one record for the URL.
C2_Idempotent1 ==
  [][(ret'.op = "shorten" /\ ret'.arg \in DOMAIN s1.url_to_code) =>
       /\ ret'.arg \in Issued1
       /\ ret'.r1 = issued[ret'.arg].r1
       /\ ret'.drawn1 = 0
       /\ s1' = s1
       /\ Cardinality(RecordsOf(s1', ret'.arg)) = 1]_vars

C2_Witness ==
  /\ ret.op = "shorten"
  /\ ret.drawn1 = 0
  /\ ret.r1.kind = "pair"
  /\ ret.r1 = issued[ret.arg].r1
  /\ Len(s1.compressed_data) >= 2

\* C3: idempotence in src/_URL.py: shorten_url of a URL that already has a
\* record completes without error and returns the pair of the first call.
C3_Idempotent2 ==
  (ret.op = "shorten" /\ ret.arg \in Issued2) =>
    ret.r2 = issued[ret.arg].r2

\* C4: uniqueness, both variants: the short codes returned for distinct URLs
\* are pairwise distinct, and no key of code_to_url is ever overwritten: each
\* returned short code still maps to the URL it was issued for.
C4_Uniqueness ==
  /\ \A u, v \in Issued1 :
       u # v => issued[u].r1.short_code # issued[v].r1.short_code
  /\ \A u, v \in Issued2 :
       u # v => issued[u].r2.short_code # issued[v].r2.short_code
  /\ \A u \in Issued1 :
       /\ issued[u].r1.short_code \in DOMAIN s1.code_to_url
       /\ s1.code_to_url[issued[u].r1.short_code] = u
  /\ \A u \in Issued2 :
       /\ issued[u].r2.short_code \in DOMAIN s2.code_to_url
       /\ s2.code_to_url[issued[u].r2.short_code] = u

\* a first candidate collided with a stored code and a later draw was used
C4_Witness ==
  /\ ret.op = "shorten"
  /\ ret.r1.kind = "pair"
  /\ ret.r2 = ret.r1
  /\ ret.drawn1 = 2
  /\ HashPrefix(ret.arg) \o ret.draws[1] \in DOMAIN s1.code_to_url
  /\ Cardinality(Issued1) >= 2

\* C5: codec round trip: _decompress of what _compress returned for a
\* non-empty string is exactly that string.
C5_RoundTrip ==
  ret.op = "decompress" => ret.out = [ok |-> TRUE, text |-> ret.data]

C6_Sound(u, pair) ==
  /\ pair.compressed = ret.arg
  /\ decompress(ret.arg, compress(pair.short_code).huffman_codes)
       = [ok |-> TRUE, text |-> pair.short_code]

\* C6: expand soundness, both variants: a URL returned by expand_url(c) is a
\* stored URL whose record has compressed code c and whose own code table
\* decodes c to the record's short code.
C6_ExpandSound ==
  ret.op = "expand" =>
    /\ ret.r1.kind = "url" =>
         /\ ret.r1.url \in Issued1
         /\ C6_Sound(ret.r1.url, issued[ret.r1.url].r1)
    /\ ret.r2.kind = "url" =>
         /\ ret.r2.url \in Issued2
         /\ C6_Sound(ret.r2.url, issued[ret.r2.url].r2)

C7_Match1(i) ==
  LET d == decompress(ret.arg, s1.compressed_data[i].value.huffman_codes)
  IN d.ok /\ d.text = s1.compressed_data[i].key

C8_Exhaustion ==
  [][(ret'.op = "shorten"
      /\ ret'.arg \notin DOMAIN s1.url_to_code
      /\ ret'.arg \notin DOMAIN s2.url_to_code)
     => LET exhausted ==
              /\ Len(ret'.draws) = max_collision_attempts
              /\ \A i \in 1..max_collision_attempts :
                   /\ HashPrefix(ret'.arg) \o ret'.draws[i] \in DOMAIN s1.code_to_url
                   /\ HashPrefix(ret'.arg) \o ret'.draws[i] \in DOMAIN s2.code_to_url
        IN /\ exhausted =>
                /\ ret'.r1 = Raise("ValueError")
                /\ ret'.r2 = Raise("ValueError")
                /\ ret'.drawn1 = max_collision_attempts
                /\ ret'.drawn2 = max_collision_attempts
           /\ (ret'.r1.kind = "raise" \/ ret'.r2.kind = "raise") => exhausted]_vars

\* one attempt, and the entropy source repeats a suffix stored for the prefix
C8_Witness ==
  /\ max_collision_attempts = 1
  /\ ret.op = "shorten"
  /\ ret.r1 = Raise("ValueError")
  /\ ret.r2 = Raise("ValueError")
  /\ ret.drawn1 = 1
  /\ HashPrefix(ret.arg) \o ret.draws[1] \in DOMAIN s1.code_to_url

C9_Absent(s, url) ==
  /\ url \notin DOMAIN s.url_to_code
  /\ \A c \in DOMAIN s.code_to_url : s.code_to_url[c] # url
  /\ RecordsOf(s, url) = {}

\* C9: failed operations leave the store unchanged, both variants: after
\* shorten_url fails with exhaustion, and after expand_url returns None, the
\* three maps are what they were before the call and the failing URL is in
\* none of them.
C9_FailureFrame ==
  [][/\ (ret'.op = "shorten" /\ ret'.r1 = Raise("ValueError")) =>
          s1' = s1 /\ C9_Absent(s1', ret'.arg)
     /\ (ret'.op = "shorten" /\ ret'.r2 = Raise("ValueError")) =>
          s2' = s2 /\ C9_Absent(s2', ret'.arg)
     /\ (ret'.op = "expand" /\ ret'.r1 = NotFound) => s1' = s1
     /\ (ret'.op = "expand" /\ ret'.r2 = NotFound) => s2' = s2]_vars

C9_Witness ==
  /\ ret.op = "shorten"
  /\ ret.r1 = Raise("ValueError")
  /\ ret.r2 = Raise("ValueError")
  /\ Len(s1.compressed_data) >= 2
  /\ C9_Absent(s1, ret.arg)
  /\ C9_Absent(s2, ret.arg)

\* C10: the code table _build_huffman_tree returns for a non-empty string has
\* exactly one entry per distinct symbol of the string, and no code in it is
\* a prefix of, or equal to, the code of another symbol.
C10_PrefixFree ==
  ret.op = "compress" =>
    LET t == ret.out.huffman_codes
    IN /\ {t[k].char : k \in DOMAIN t} = {ret.data[i] : i \in DOMAIN ret.data}
       /\ \A j, k \in DOMAIN t :
            j # k => /\ t[j].char # t[k].char
                     /\ ~IsPrefix(t[j].code, t[k].code)

\* a table with codes of different lengths
C10_Witness ==
  /\ ret.op = "compress"
  /\ Len(ret.out.huffman_codes) >= 3
  /\ \E j, k \in DOMAIN ret.out.huffman_codes :
       Len(ret.out.huffman_codes[j].code) < Len(ret.out.huffman_codes[k].code)

\* C11: single-symbol edge case: for a non-empty string of one repeated
\* symbol a, _compress yields the code table {a: "0"} and _decompress of the
\* encoded text under that table returns the string, with exactly as many
\* symbols.
C11_SingleSymbol ==
  (ret.op = "decompress" /\ \A i \in DOMAIN ret.data : ret.data[i] = ret.data[1])
    => /\ ret.huffman_codes = << [char |-> ret.data[1], code |-> <<0>>] >>
       /\ ret.out = [ok |-> TRUE, text |-> ret.data]

\* C12: the two variants behave alike: on the same sequence of calls with the
\* same draws, every call has the same outcome in src/URL.py and src/_URL.py.
C12_SameOutcome ==
  ret.op \in {"shorten", "expand"} => ret.r1 = ret.r2

\* C13: src/_URL.py retains every record: compressed_data holds one entry per
\* stored URL, each entry with that URL as original_url, also when two short
\* codes compress to the same text.
C13_Retained2 ==
  /\ Len(s2.compressed_data) = Cardinality(DOMAIN s2.url_to_code)
  /\ \A u \in DOMAIN s2.url_to_code : RecordsOf(s2, u) # {}
\* the url_to_code and code_to_url of a store are inverses of one another
Inverses(s) ==
  /\ Cardinality(DOMAIN s.url_to_code) = Cardinality(DOMAIN s.code_to_url)
  /\ \A u \in DOMAIN s.url_to_code :
       /\ s.url_to_code[u] \in DOMAIN s.code_to_url
       /\ s.code_to_url[s.url_to_code[u]] = u
  /\ \A c \in DOMAIN s.code_to_url :
       /\ s.code_to_url[c] \in DOMAIN s.url_to_code
       /\ s.url_to_code[s.code_to_url[c]] = c

\* C14: after every call, in both variants url_to_code and code_to_url are
\* exact inverses; in src/URL.py the keys of compressed_data are the keys of
\* code_to_url, each entry's original_url is code_to_url[short code] and its
\* 'compressed' field is the short code encoded under the entry's code table.
C14_Consistent ==
  /\ Inverses(s1)
  /\ Inverses(s2)
  /\ {s1.compressed_data[i].key : i \in DOMAIN s1.compressed_data}
       = DOMAIN s1.code_to_url
  /\ Len(s1.compressed_data) = Cardinality(DOMAIN s1.code_to_url)
  /\ \A i \in DOMAIN s1.compressed_data :
       LET e == s1.compressed_data[i]
       IN /\ e.value.original_url = s1.code_to_url[e.key]
          /\ e.value.compressed
               = pack(e.key, e.value.huffman_codes).compressed_str

C14_Witness ==
  /\ ret.op = "expand"
  /\ Len(s1.compressed_data) = NumUrls
  /\ Cardinality(DOMAIN s2.code_to_url) = NumUrls

\* C15: a code that _generate_short_code returns is not a key of code_to_url
\* when it is returned, and the call changes none of the three maps; in a
\* shorten_url call the returned code is the only key that code_to_url gains.
C15_Generator ==
  [][/\ ret'.op = "generate" =>
          /\ ret'.r1.ok => ret'.r1.short_code \notin DOMAIN s1'.code_to_url
          /\ ret'.r2.ok => ret'.r2.short_code \notin DOMAIN s2'.code_to_url
          /\ s1' = s1
          /\ s2' = s2
     /\ (ret'.op = "shorten" /\ ret'.drawn1 > 0 /\ ret'.r1.kind = "pair") =>
          /\ ret'.r1.short_code \notin DOMAIN s1.code_to_url
          /\ DOMAIN s1'.code_to_url
               = DOMAIN s1.code_to_url \cup {ret'.r1.short_code}
     /\ (ret'.op = "shorten" /\ ret'.drawn2 > 0 /\ ret'.r2.kind = "pair") =>
          /\ ret'.r2.short_code \notin DOMAIN s2.code_to_url
          /\ DOMAIN s2'.code_to_url
               = DOMAIN s2.code_to_url \cup {ret'.r2.short_code}]_vars

\* the generator, called on a store with records, passed over a stored code
C15_Witness ==
  /\ ret.op = "generate"
  /\ ret.r1.ok
  /\ ret.r2.ok
  /\ ret.r1.drawn = 2
  /\ HashPrefix(ret.arg) \o ret.draws[1] \in DOMAIN s1.code_to_url
  /\ ret.r1.short_code \notin DOMAIN s1.code_to_url

\* what one variant's shorten_url call did with its draws: on a URL without
\* a record it drew 1..attempts candidates, candidate i being the prefix and
\* the i-th drawn suffix, passed over stored codes only, and ended by
\* inserting the last candidate or, all candidates stored, by ValueError
C16_Bounded(s, t, url, draws, r, drawn, attempts) ==
  /\ drawn \in 0..attempts
  /\ r.kind # "reseed"
  /\ url \notin DOMAIN s.url_to_code =>
       /\ drawn >= 1
       /\ \A i \in 1..(drawn - 1) : HashPrefix(url) \o draws[i] \in DOMAIN s.code_to_url
       /\ \/ /\ r.kind = "pair"
             /\ r.short_code = HashPrefix(url) \o draws[drawn]
             /\ r.short_code \notin DOMAIN s.code_to_url
             /\ r.short_code \in DOMAIN t.code_to_url
          \/ /\ r = Raise("ValueError")
             /\ drawn = attempts
             /\ HashPrefix(url) \o draws[drawn] \in DOMAIN s.code_to_url
             /\ t = s

\* C16: every shorten_url call ends, in both variants, after drawing at most
\* max_collision_attempts candidate codes, each with its own drawn suffix; a
\* call that generates ends in an insertion or in the exhaustion error, and
\* the while loop of src/_URL.py is never entered.
C16_BoundedRetry ==
  [][ret'.op = "shorten" =>
       /\ C16_Bounded(s1, s1', ret'.arg, ret'.draws, ret'.r1, ret'.drawn1,
                      max_collision_attempts)
       /\ C16_Bounded(s2, s2', ret'.arg, ret'.draws, ret'.r2, ret'.drawn2,
                      max_collision_attempts)]_vars

C16_Witness ==
  /\ ret.op = "shorten"
  /\ max_collision_attempts = MaxAttempts
  /\ ret.drawn2 = MaxAttempts
  /\ ret.r2.kind = "pair"
  /\ ret.r1.kind = "pair"
  /\ ret.r2.short_code = HashPrefix(ret.arg) \o ret.draws[MaxAttempts]

LongestCode(huffman_codes) ==
  LET lens == {Len(huffman_codes[k].code) : k \in DOMAIN huffman_codes}
  IN CHOOSE n \in lens : \A m \in lens : m <= n

RECURSIVE Overruns(_, _, _)
\* the decode loop reaches a buffer longer than the longest code that matches
\* no code, with bits still to read
Overruns(binary, huffman_codes, current_code) ==
  IF binary = <<>> THEN FALSE
  ELSE LET cc == Append(current_code, Head(binary))
       IN IF InReverse(huffman_codes, cc)
          THEN Overruns(Tail(binary), huffman_codes, <<>>)
          ELSE \/ Len(cc) > LongestCode(huffman_codes) /\ Tail(binary) # <<>>
               \/ Overruns(Tail(binary), huffman_codes, cc)

\* C17: when the bits given to _decompress make its buffer grow longer than
\* the longest code without a match while bits remain, _decompress fails
\* with an error and returns no decoded string.
C17_DecodeError ==
  (ret.op = "decoded"
     /\ Overruns(BinaryOf(urlsafe_b64decode(ret.compressed_str).bits),
                 ret.huffman_codes, <<>>))
    => ~ret.out.ok

\* the code of the table that has only '0' bits
ZeroCode(huffman_codes) ==
  huffman_codes[CHOOSE k \in DOMAIN huffman_codes :
                  huffman_codes[k].code = Zeros(Len(huffman_codes[k].code))]

\* C18: _compress emits the codes of s followed by 0..7 '0' bits, up to the
\* next multiple of 8; _decompress of it under the same table returns s
\* followed by at most 7 symbols, each the symbol whose code is all '0';
\* pad bits that do not complete a code are dropped.
C18_PaddingAppends ==
  ret.op = "decompress" =>
    LET compressed == Concat([i \in DOMAIN ret.data |->
                                CodeOf(ret.huffman_codes, ret.data[i])])
        bytes_data == urlsafe_b64decode(ret.compressed_str)
        pad == Len(bytes_data.bits) - Len(compressed)
        zero == ZeroCode(ret.huffman_codes)
    IN /\ bytes_data.ok
       /\ Len(bytes_data.bits) = 8 * ((Len(compressed) + 7) \div 8)
       /\ pad \in 0..7
       /\ bytes_data.bits = compressed \o Zeros(pad)
       /\ ret.out.ok
       /\ IsPrefix(ret.data, ret.out.text)
       /\ Len(ret.out.text) = Len(ret.data) + (pad \div Len(zero.code))
       /\ Len(ret.out.text) - Len(ret.data) <= 7
       /\ \A i \in (Len(ret.data) + 1)..Len(ret.out.text) :
            ret.out.text[i] = zero.char

\* the pad bits of a string over three or more symbols decoded to extra
\* symbols
C18_Witness ==
  /\ ret.op = "decompress"
  /\ Len(ret.huffman_codes) >= 3
  /\ ret.out.ok
  /\ Len(ret.out.text) > Len(ret.data) + 1
  /\ SubSeq(ret.out.text, 1, Len(ret.data)) = ret.data

====
